---- MODULE Spec2Model ----
(***************************************************************************)
(* Inventory stock ledger of the boutique-management backend               *)
(* (backend/inventory): items with a balance, the StockHistory log, the    *)
(* OrderMaterial bindings and the request handlers that change them.       *)
(*                                                                         *)
(* Quantities are Decimal(max_digits=10, decimal_places=2) in the code;    *)
(* the model counts them in hundredths, so 0.01 is 1.                      *)
(*                                                                         *)
(* Requests are served by concurrent handlers.  A handler first loads the  *)
(* rows it works on (get_object / objects.get) and later writes them back  *)
(* with Model.save(), which writes every column of the loaded copy.  The   *)
(* store is a READ COMMITTED database: a read sees the last committed row  *)
(* (or the transaction's own write), an UPDATE waits for the row lock of   *)
(* an open transaction, and the writes of a transaction.atomic() block     *)
(* become visible together at commit.                                      *)
(***************************************************************************)
EXTENDS Integers, Sequences, FiniteSets, TLC

(* ------------------------------ bounds -------------------------------- *)
NumProcs == 2          \* concurrent request handlers
NumUsers == 1          \* tenants
MaxItems == 2          \* item rows that can exist
MaxQty == 2            \* largest quantity / balance a request carries
MaxRequests == 3       \* requests served in one run
MaxLines == 1          \* lines of one AddMaterials call
MaxCategories == 3     \* category rows that can exist
NumTenants == 2        \* tenants of the two-shop systems

(* ------------------------- program constants -------------------------- *)
MIN_QUANTITY == 1      \* min_value=0.01 of the quantity fields
MIN_STOCK == 0         \* min_value=0 of new_stock / MinValueValidator(0)
DEFAULT_MINIMUM_STOCK == 0   \* default=0 of InventoryItem.minimum_stock
HISTORY_LIMIT == 50    \* the slice [:50] of the item history query
RECENT_LIMIT == 5      \* the slice [:5] of recently_updated
LOW_STOCK_LIMIT == 10  \* the slice [:10] of low_stock_items

NULL == 0

Procs == 1..NumProcs
Users == 1..NumUsers
ItemIds == 1..MaxItems
MaterialIds == 1..(MaxRequests * MaxLines)   \* ids a run can hand out
OrderIds == 1..NumUsers            \* one order per tenant, order o owned by user o
Quantities == 0..MaxQty            \* request quantities, 0 is invalid
Stocks == (0 - 1)..MaxQty          \* request balances, -1 is invalid
AdjustReasons_any == {"DAMAGED", "MANUAL_ADJUSTMENT", "PURCHASE"}
AdjustReasons == {"DAMAGED", "MANUAL_ADJUSTMENT"}
ReasonInputs == {"MANUAL_ADJUSTMENT", "PURCHASE"}   \* the last one is not a choice
ItemNames == {"Thread"}            \* names given to new items
\* Order.STATUS_CHOICES, in the order of status_order (orders/views.py 99).
status_order == <<"PENDING", "IN_STITCHING", "READY", "DELIVERED">>
STATUS_CHOICES == {status_order[k] : k \in DOMAIN status_order}
StatusInputs == STATUS_CHOICES \cup {"CANCELLED"}   \* the last one is not a choice
CategoryIds == 1..MaxCategories
CategoryNames == {"Fabric", "Buttons"}

\* Item names in the order in which the database sorts them.
Collation ==
  <<"Buckle", "Button", "Canvas", "Cotton", "Elastic", "Hook", "Lace", "Linen", "Ribbon",
    "Silk", "Thread", "Zip">>

VARIABLES
  items,            \* inventory_items: id -> row
  categories,       \* inventory_categories: id -> row
  orders,           \* orders: id -> row
  materials,        \* order_materials: id -> row
  history,          \* stock_history rows, in commit order
  nextMaterialId,   \* ids (uuid4) are never reused
  pc,               \* position of each handler
  req,              \* the request a handler is serving and its local copies
  response,         \* the response sent last
  served,           \* number of requests taken up so far
  removed,          \* history variable: ids of the bindings a DELETE has removed
  restored          \* history variable: ids of the bindings whose stock was restored

vars == <<items, categories, orders, materials, history, nextMaterialId, pc, req, response,
          served, removed, restored>>

(* ------------------------------- rows --------------------------------- *)
InventoryItem(user, name, current_stock, minimum_stock, is_deleted, updated_at) ==
  [user |-> user, name |-> name, current_stock |-> current_stock,
   minimum_stock |-> minimum_stock, is_deleted |-> is_deleted, updated_at |-> updated_at]

\* models.py 107-110: the stock is below the minimum threshold.
is_low_stock_above(item) == item.current_stock > item.minimum_stock
is_low_stock(item) == item.current_stock < item.minimum_stock

\* orders/models.py 8-38: an order, with status default 'PENDING'.
Order(user, status, is_deleted) ==
  [user |-> user, status |-> status, is_deleted |-> is_deleted]

InventoryCategory(user, name, is_deleted) ==
  [user |-> user, name |-> name, is_deleted |-> is_deleted]

OrderMaterial(order, inventory_item, quantity) ==
  [order |-> order, inventory_item |-> inventory_item, quantity |-> quantity]

StockHistory(inventory_item, transaction_type, reason, quantity, stock_before, stock_after, order, order_material, created_at) ==
  [inventory_item |-> inventory_item, transaction_type |-> transaction_type,
   reason |-> reason, quantity |-> quantity, stock_before |-> stock_before,
   stock_after |-> stock_after, order |-> order, order_material |-> order_material,
   created_at |-> created_at]

NoItem == InventoryItem(NULL, "", 0, DEFAULT_MINIMUM_STOCK, FALSE, 0)
NoMaterial == OrderMaterial(NULL, NULL, 0)
NoCategory == InventoryCategory(NULL, "", FALSE)
NoOrder == Order(NULL, "", FALSE)
NoRows == [i \in {} |-> NoItem]
NoCategories == [c \in {} |-> NoCategory]
NoBindings == [m \in {} |-> NoMaterial]

abs_signed(x) == x
abs(x) == IF x < 0 THEN 0 - x ELSE x

\* StockHistory.objects.create: one more row of the log.
create_skipped(entries, entry) == entries
create(entries, entry) == Append(entries, entry)

NoReq ==
  [user |-> NULL, target |-> NULL, order |-> NULL, quantity |-> 0, reason |-> "",
   item |-> NoItem, instance |-> NoMaterial, category |-> NoCategory,
   order_copy |-> NoOrder,
   materials_data |-> <<>>, line |-> 0,
   tx_items |-> NoRows, tx_materials |-> NoBindings, tx_history |-> <<>>,
   errors |-> <<>>]

\* The body of the dashboard response.
Summary(total_items, total_categories, low_stock_count, recently_updated, low_stock_items) ==
  [total_items |-> total_items, total_categories |-> total_categories,
   low_stock_count |-> low_stock_count, total_stock_value |-> 0,
   recently_updated |-> recently_updated, low_stock_items |-> low_stock_items]

NoSummary == Summary(0, 0, 0, <<>>, <<>>)

\* A response: its status, the created_count and the errors of AddMaterials,
\* the serialised rows of a history query and the body of the dashboard.
Response(status, created, errors) ==
  [status |-> status, created |-> created, errors |-> errors, data |-> <<>>,
   summary |-> NoSummary]

Max(S) == CHOOSE x \in S : \A y \in S : y <= x
Min(a, b) == IF a < b THEN a ELSE b

\* StockHistory.created_at, default=timezone.now (models.py 227): the clock
\* reading at the creation of a row, later than that of every row made so
\* far, committed or not.  Readings are counted from 1.
now ==
  1 + Max({0} \cup {history[k].created_at : k \in DOMAIN history}
              \cup UNION {{req[p].tx_history[k].created_at : k \in DOMAIN req[p].tx_history}
                            : p \in DOMAIN req})

NoResp == Response(0, 0, <<>>)

(* ----------------------------- the store ------------------------------ *)
\* Rows of item ids locked by the open transaction of handler p.
Locked(p) == DOMAIN req[p].tx_items

\* An UPDATE of item i by handler p has to wait while another open
\* transaction holds the row.
RowFree(p, i) == \A q \in Procs \ {p} : i \notin Locked(q)

\* InventoryItemViewSet.get_queryset: the caller's rows that are not deleted.
ItemVisible(u, i) ==
  /\ i \in DOMAIN items
  /\ items[i].user = u
  /\ ~items[i].is_deleted

\* InventoryItem.updated_at, auto_now=True (models.py 93): the reading of
\* the clock of the items table at a save, later than that of every item
\* row saved so far, committed or not.
auto_now ==
  1 + Max({0} \cup {items[i].updated_at : i \in DOMAIN items}
              \cup UNION {{req[p].tx_items[i].updated_at : i \in DOMAIN req[p].tx_items}
                            : p \in DOMAIN req})

\* Model.save() of a loaded item: every column is written from the copy,
\* updated_at with the reading of the clock.
SaveItem_not_called(rows, i, copy) == rows
SaveItem(rows, i, copy) ==
  [j \in DOMAIN rows \cup {i} |->
     IF j = i THEN [copy EXCEPT !.updated_at = auto_now] ELSE rows[j]]

\* A handler takes up a request only while the run has served fewer than
\* MaxRequests of them.
Accept == served < MaxRequests

\* The handler returns response r.
Finish(p, r) ==
  /\ pc' = [pc EXCEPT ![p] = "idle"]
  /\ req' = [req EXCEPT ![p] = NoReq]
  /\ response' = r

\* The handler goes on to its next step.
Goto(p, label, r) ==
  /\ pc' = [pc EXCEPT ![p] = label]
  /\ req' = [req EXCEPT ![p] = r]
  /\ UNCHANGED response

\* A later step of the request handler p is serving.
Step(p, label) == pc[p] = label /\ UNCHANGED served

\* A later step of a request that is not one of the category endpoint.
At(p, label) == Step(p, label) /\ UNCHANGED categories

\* Only RemoveMaterial changes the two history variables.
Kept == UNCHANGED <<removed, restored>>

\* Every request starts in an idle handler.
Begin(p) == pc[p] = "idle" /\ Accept /\ served' = served + 1 /\ Kept

\* The start of a request that is not one of the category endpoint.
Idle(p) == Begin(p) /\ UNCHANGED categories

(* ------------------------------ stock_in ------------------------------ *)
\* views.py 153-159: get_object, StockInSerializer, local copy of the row.
StockInLoad(p, u, i, q) ==
  /\ Idle(p)
  /\ UNCHANGED <<items, orders, materials, history, nextMaterialId>>
  /\ IF ~ItemVisible(u, i) THEN Finish(p, Response(404, 0, <<>>))
     ELSE IF q < MIN_QUANTITY THEN Finish(p, Response(400, 0, <<>>))
     ELSE Goto(p, "stock_in", [NoReq EXCEPT !.user = u, !.target = i,
                                            !.quantity = q, !.item = items[i]])

\* views.py 160-181: the atomic block.
StockInCommit(p) ==
  /\ At(p, "stock_in")
  /\ Kept
  /\ RowFree(p, req[p].target)
  /\ LET r == req[p]
         stock_before == r.item.current_stock
         item == [r.item EXCEPT !.current_stock = @ + r.quantity]
     IN /\ items' = SaveItem(items, r.target, item)
        /\ history' = create(history,
             StockHistory(r.target, "IN", "PURCHASE", r.quantity,
                          stock_before, item.current_stock, NULL, NULL, now))
        /\ Finish(p, Response(200, 0, <<>>))
  /\ UNCHANGED <<orders, materials, nextMaterialId>>

(* ---------------------------- adjust_stock ---------------------------- *)
\* views.py 190-198: get_object, StockAdjustmentSerializer, local copy.
AdjustStockLoad(p, u, i, new_stock, reason) ==
  /\ Idle(p)
  /\ UNCHANGED <<items, orders, materials, history, nextMaterialId>>
  /\ IF ~ItemVisible(u, i) THEN Finish(p, Response(404, 0, <<>>))
     ELSE IF new_stock < MIN_STOCK \/ reason \notin AdjustReasons
          THEN Finish(p, Response(400, 0, <<>>))
     ELSE Goto(p, "adjust_stock", [NoReq EXCEPT !.user = u, !.target = i,
                 !.quantity = new_stock, !.reason = reason, !.item = items[i]])

\* views.py 196-218: the atomic block.
AdjustStockCommit(p) ==
  /\ At(p, "adjust_stock")
  /\ Kept
  /\ RowFree(p, req[p].target)
  /\ LET r == req[p]
         new_stock == r.quantity
         stock_before == r.item.current_stock
         difference == new_stock - stock_before
         item == [r.item EXCEPT !.current_stock = new_stock]
     IN /\ items' = SaveItem(items, r.target, item)
        /\ history' = create(history,
             StockHistory(r.target, "ADJUSTMENT", r.reason, abs(difference),
                          stock_before, new_stock, NULL, NULL, now))
        /\ Finish(p, Response(200, 0, <<>>))
  /\ UNCHANGED <<orders, materials, nextMaterialId>>

(* ------------------------- item create / update ------------------------ *)
\* views.py 103-107 with InventoryItemSerializer: the row is inserted
\* (autocommit) before the history row is written.  A request that carries
\* no minimum_stock gets the default of the model.
ItemCreate(p, u, name, current_stock, minimum_stock) ==
  /\ Idle(p)
  /\ UNCHANGED <<orders, materials, history, nextMaterialId>>
  /\ IF current_stock < MIN_STOCK
     THEN /\ Finish(p, Response(400, 0, <<>>))
          /\ UNCHANGED items
     ELSE /\ DOMAIN items # ItemIds
          /\ LET i == Cardinality(DOMAIN items) + 1
                 item == InventoryItem(u, name, current_stock, minimum_stock, FALSE, 0)
             IN /\ items' = SaveItem(items, i, item)
                /\ IF item.current_stock > 0
                   THEN Goto(p, "create_history",
                             [NoReq EXCEPT !.user = u, !.target = i, !.item = item])
                   ELSE Finish(p, Response(201, 0, <<>>))

\* views.py 108-119.
ItemCreateHistory(p) ==
  /\ At(p, "create_history")
  /\ Kept
  /\ LET r == req[p]
     IN history' = create(history,
          StockHistory(r.target, "IN", "INITIAL_STOCK", r.item.current_stock,
                       0, r.item.current_stock, NULL, NULL, now))
  /\ Finish(p, Response(201, 0, <<>>))
  /\ UNCHANGED <<items, orders, materials, nextMaterialId>>

\* views.py 138-140, ModelViewSet.update / partial_update: get_object and
\* validation.  A partial update need not carry current_stock.
ItemUpdateLoad(p, u, i, partial, current_stock) ==
  /\ Idle(p)
  /\ UNCHANGED <<items, orders, materials, history, nextMaterialId>>
  /\ IF ~ItemVisible(u, i) THEN Finish(p, Response(404, 0, <<>>))
     ELSE IF ~partial /\ current_stock < MIN_STOCK
          THEN Finish(p, Response(400, 0, <<>>))
     ELSE Goto(p, "item_update", [NoReq EXCEPT !.user = u, !.target = i,
                 !.item = IF partial THEN items[i]
                          ELSE [items[i] EXCEPT !.current_stock = current_stock]])

\* serializer.save(): instance.save() writes the whole copy.
ItemUpdateSave(p) ==
  /\ At(p, "item_update")
  /\ Kept
  /\ RowFree(p, req[p].target)
  /\ items' = SaveItem(items, req[p].target, req[p].item)
  /\ Finish(p, Response(200, 0, <<>>))
  /\ UNCHANGED <<orders, materials, history, nextMaterialId>>

\* views.py 142-144, DestroyModelMixin.destroy: get_object.
ItemDestroyLoad(p, u, i) ==
  /\ Idle(p)
  /\ UNCHANGED <<items, orders, materials, history, nextMaterialId>>
  /\ IF ~ItemVisible(u, i) THEN Finish(p, Response(404, 0, <<>>))
     ELSE Goto(p, "item_destroy", [NoReq EXCEPT !.user = u, !.target = i,
                                                !.item = items[i]])

\* views.py 121-124: soft delete, instance.save().
ItemPerformDestroy(p) ==
  /\ At(p, "item_destroy")
  /\ Kept
  /\ RowFree(p, req[p].target)
  /\ items' = SaveItem(items, req[p].target, [req[p].item EXCEPT !.is_deleted = TRUE])
  /\ Finish(p, Response(204, 0, <<>>))
  /\ UNCHANGED <<orders, materials, history, nextMaterialId>>

\* views.py 126-128, ListModelMixin.list: the rows of get_queryset.
list(u) == {i \in DOMAIN items : ItemVisible(u, i)}

\* views.py 134-136, RetrieveModelMixin.retrieve: get_object.
ItemRetrieve(p, u, i) ==
  /\ Idle(p)
  /\ UNCHANGED <<items, orders, materials, history, nextMaterialId>>
  /\ IF ~ItemVisible(u, i) THEN Finish(p, Response(404, 0, <<>>))
     ELSE Finish(p, Response(200, 0, <<>>))

\* item.stock_history: the committed rows of item i.
stock_history(i) == {history[k] : k \in {j \in DOMAIN history : history[j].inventory_item = i}}

\* StockHistory.Meta.ordering = ['-created_at'] (models.py 229-231): the
\* rows by falling clock reading.
Newest(rows) == CHOOSE e \in rows : \A f \in rows : f.created_at <= e.created_at

RECURSIVE ordering(_)
ordering(rows) ==
  IF rows = {} THEN <<>> ELSE <<Newest(rows)>> \o ordering(rows \ {Newest(rows)})

\* queryset[:n]: the first n rows of the ordered result.
slice_all(rows, n) == rows
slice(rows, n) == SubSeq(rows, 1, Min(Len(rows), n))

\* views.py 225-231: get_object, then the serialised rows of the item.
ItemHistory(p, u, i) ==
  /\ Idle(p)
  /\ UNCHANGED <<items, orders, materials, history, nextMaterialId>>
  /\ IF ~ItemVisible(u, i) THEN Finish(p, Response(404, 0, <<>>))
     ELSE Finish(p, [Response(200, 0, <<>>) EXCEPT
                       !.data = slice(ordering(stock_history(i)), HISTORY_LIMIT)])

\* orders/views.py 50-53: soft delete of an order.
OrderPerformDestroy(p, u, o) ==
  /\ Idle(p)
  /\ UNCHANGED <<items, materials, history, nextMaterialId>>
  /\ IF o \in DOMAIN orders /\ orders[o].user = u /\ ~orders[o].is_deleted
     THEN /\ orders' = [orders EXCEPT ![o].is_deleted = TRUE]
          /\ Finish(p, Response(204, 0, <<>>))
     ELSE /\ UNCHANGED orders
          /\ Finish(p, Response(404, 0, <<>>))

(* ----------------------------- categories ----------------------------- *)
\* InventoryCategoryViewSet.get_queryset, views.py 33-37.
CategoryVisible(u, c) ==
  /\ c \in DOMAIN categories
  /\ categories[c].user = u
  /\ ~categories[c].is_deleted

\* InventoryCategorySerializer.validate, serializers.py 20-35: a category
\* of the shop that is not deleted, other than the instance, has the name.
\* Each user is the only one of their shop, so the shop is the user.
Duplicate(u, name, instance) ==
  \E c \in DOMAIN categories \ {instance} :
    /\ categories[c].user = u
    /\ categories[c].name = name
    /\ ~categories[c].is_deleted

\* unique_together = [['shop', 'name']], models.py 39: the constraint of
\* the table lets row c be written when no other row of the table,
\* soft-deleted or not, has its shop and name.
unique_together(c, row) ==
  \A k \in DOMAIN categories \ {c} :
    ~(categories[k].user = row.user /\ categories[k].name = row.name)

NameError == <<[name |-> "A category with this name already exists."]>>

\* ModelViewSet.create, views.py 54-56: validation of the request.
CategoryCreate(p, u, name) ==
  /\ Begin(p)
  /\ UNCHANGED <<items, categories, orders, materials, history, nextMaterialId>>
  /\ IF Duplicate(u, name, NULL) THEN Finish(p, Response(400, 0, NameError))
     ELSE Goto(p, "category_create",
               [NoReq EXCEPT !.user = u, !.category = InventoryCategory(u, name, FALSE)])

\* perform_create, views.py 39-43: serializer.save inserts the row; an
\* IntegrityError of the table is not caught and ends the request with a
\* server error.
CategoryPerformCreate(p) ==
  /\ Step(p, "category_create")
  /\ Kept
  /\ LET c == Cardinality(DOMAIN categories) + 1
         row == req[p].category
     IN IF unique_together(c, row)
        THEN /\ c <= MaxCategories
             /\ categories' = [k \in DOMAIN categories \cup {c} |->
                                 IF k = c THEN row ELSE categories[k]]
             /\ Finish(p, Response(201, 0, <<>>))
        ELSE /\ UNCHANGED categories
             /\ Finish(p, Response(500, 0, <<>>))
  /\ UNCHANGED <<items, orders, materials, history, nextMaterialId>>

\* ModelViewSet.update, views.py 62-64: get_object and validation.
CategoryUpdateLoad(p, u, c, name) ==
  /\ Begin(p)
  /\ UNCHANGED <<items, categories, orders, materials, history, nextMaterialId>>
  /\ IF ~CategoryVisible(u, c) THEN Finish(p, Response(404, 0, <<>>))
     ELSE IF Duplicate(u, name, c) THEN Finish(p, Response(400, 0, NameError))
     ELSE Goto(p, "category_update",
               [NoReq EXCEPT !.user = u, !.target = c,
                             !.category = [categories[c] EXCEPT !.name = name]])

\* serializer.save(): instance.save() writes every column of the copy.
CategoryUpdateSave(p) ==
  /\ Step(p, "category_update")
  /\ Kept
  /\ IF unique_together(req[p].target, req[p].category)
     THEN /\ categories' = [categories EXCEPT ![req[p].target] = req[p].category]
          /\ Finish(p, Response(200, 0, <<>>))
     ELSE /\ UNCHANGED categories
          /\ Finish(p, Response(500, 0, <<>>))
  /\ UNCHANGED <<items, orders, materials, history, nextMaterialId>>

\* DestroyModelMixin.destroy, views.py 66-68: get_object.
CategoryDestroyLoad(p, u, c) ==
  /\ Begin(p)
  /\ UNCHANGED <<items, categories, orders, materials, history, nextMaterialId>>
  /\ IF ~CategoryVisible(u, c) THEN Finish(p, Response(404, 0, <<>>))
     ELSE Goto(p, "category_destroy",
               [NoReq EXCEPT !.user = u, !.target = c, !.category = categories[c]])

\* perform_destroy, views.py 45-48: soft delete, instance.save().
CategoryPerformDestroy(p) ==
  /\ Step(p, "category_destroy")
  /\ Kept
  /\ LET row == [req[p].category EXCEPT !.is_deleted = TRUE]
     IN IF unique_together(req[p].target, row)
        THEN /\ categories' = [categories EXCEPT ![req[p].target] = row]
             /\ Finish(p, Response(204, 0, <<>>))
        ELSE /\ UNCHANGED categories
             /\ Finish(p, Response(500, 0, <<>>))
  /\ UNCHANGED <<items, orders, materials, history, nextMaterialId>>

(* ------------------------------ dashboard ----------------------------- *)
\* InventoryItemListSerializer, serializers.py 53-59.
InventoryItemListSerializer(i) ==
  [id |-> i, name |-> items[i].name, current_stock |-> items[i].current_stock,
   is_low_stock |-> is_low_stock(items[i])]

Serialized(ids) == [k \in DOMAIN ids |-> InventoryItemListSerializer(ids[k])]

\* The place of a name in the sort order of the database.
Rank(name) == CHOOSE k \in DOMAIN Collation : Collation[k] = name

\* ORDER BY: the results a query over the rows `ids` can give when it
\* orders them by rising key; rows of equal key come in any order.
RECURSIVE order_by(_, _)
order_by(ids, key) ==
  IF ids = {} THEN {<<>>}
  ELSE UNION {{<<i>> \o rest : rest \in order_by(ids \ {i}, key)} :
                i \in {j \in ids : \A k \in ids : key[j] <= key[k]}}

\* views.py 422-451.  low_stock_items has no order_by of its own: it comes
\* in the ordering of the model, ['name'] (models.py 97).
InventoryDashboard(p, u) ==
  /\ Idle(p)
  /\ UNCHANGED <<items, orders, materials, history, nextMaterialId>>
  /\ LET shelf == {i \in DOMAIN items : items[i].user = u /\ ~items[i].is_deleted}
         total_items == Cardinality(shelf)
         total_categories ==
           Cardinality({c \in DOMAIN categories :
                          categories[c].user = u /\ ~categories[c].is_deleted})
         low_stock_items ==
           {i \in shelf : items[i].current_stock < items[i].minimum_stock}
         low_stock_count == Cardinality(low_stock_items)
     IN \E recently_updated \in order_by(shelf, [i \in shelf |-> 0 - items[i].updated_at]),
           by_name \in order_by(low_stock_items,
                                [i \in low_stock_items |-> Rank(items[i].name)]) :
          Finish(p, [Response(200, 0, <<>>) EXCEPT
            !.summary = Summary(total_items, total_categories, low_stock_count,
                                Serialized(slice(recently_updated, RECENT_LIMIT)),
                                Serialized(slice(by_name, LOW_STOCK_LIMIT)))])

(* ------------------------------- orders ------------------------------- *)
\* OrderViewSet.get_queryset, orders/views.py 29-33.
OrderVisible(u, o) ==
  /\ o \in DOMAIN orders
  /\ orders[o].user = u
  /\ ~orders[o].is_deleted

\* status_order.index(status), orders/views.py 99-101.
index(status) == CHOOSE k \in DOMAIN status_order : status_order[k] = status

\* User.is_staff: the last tenant is run by a staff user, the others not.
is_staff(u) == u = NumTenants

\* orders/views.py 87-107: get_object, the check of the new status and of
\* the direction of the move.
UpdateStatusLoad(p, u, o, new_status) ==
  /\ Idle(p)
  /\ UNCHANGED <<items, orders, materials, history, nextMaterialId>>
  /\ IF ~OrderVisible(u, o) THEN Finish(p, Response(404, 0, <<>>))
     ELSE IF new_status \notin STATUS_CHOICES THEN Finish(p, Response(400, 0, <<>>))
     ELSE IF index(new_status) < index(orders[o].status) /\ ~is_staff(u)
          THEN Finish(p, Response(400, 0, <<>>))
     ELSE Goto(p, "update_status",
               [NoReq EXCEPT !.user = u, !.order = o,
                             !.order_copy = [orders[o] EXCEPT !.status = new_status]])

\* orders/views.py 109-112: order.save() writes every column of the copy.
UpdateStatusSave(p) ==
  /\ At(p, "update_status")
  /\ Kept
  /\ orders' = [orders EXCEPT ![req[p].order] = req[p].order_copy]
  /\ Finish(p, Response(200, 0, <<>>))
  /\ UNCHANGED <<items, materials, history, nextMaterialId>>

\* ModelViewSet.update / partial_update with OrderUpdateSerializer
\* (orders/views.py 22-27, 68-70, orders/serializers.py 135-141):
\* get_object and validation; status is a writable field whose value has
\* to be one of the choices.  A partial update need not carry it.
OrderUpdateLoad(p, u, o, partial, new_status) ==
  /\ Idle(p)
  /\ UNCHANGED <<items, orders, materials, history, nextMaterialId>>
  /\ IF ~OrderVisible(u, o) THEN Finish(p, Response(404, 0, <<>>))
     ELSE IF ~partial /\ new_status \notin STATUS_CHOICES
          THEN Finish(p, Response(400, 0, <<>>))
     ELSE Goto(p, "order_update",
               [NoReq EXCEPT !.user = u, !.order = o,
                             !.order_copy = IF partial THEN orders[o]
                                            ELSE [orders[o] EXCEPT !.status = new_status]])

\* OrderUpdateSerializer.update, orders/serializers.py 143-163: setattr of
\* the validated fields and instance.save().
OrderUpdateSave(p) ==
  /\ At(p, "order_update")
  /\ Kept
  /\ orders' = [orders EXCEPT ![req[p].order] = req[p].order_copy]
  /\ Finish(p, Response(200, 0, <<>>))
  /\ UNCHANGED <<items, materials, history, nextMaterialId>>

(* ---------------------------- AddMaterials ---------------------------- *)
LineError_no_available(item, error, available) ==
  [item |-> item, error |-> error, available |-> 0]
LineError(item, error, available) ==
  [item |-> item, error |-> error, available |-> available]

Merge(rows, written) ==
  [k \in DOMAIN rows \cup DOMAIN written |->
     IF k \in DOMAIN written THEN written[k] ELSE rows[k]]

\* views.py 332-333: the availability check of a line.
InsufficientStock_nonempty(item, quantity) == item.current_stock <= 0
InsufficientStock(item, quantity) == item.current_stock < quantity

\* views.py 323-328, 334-338: the error of a line is collected and the
\* loop goes on with the next line.
continue_breaks(r, error) ==
  [r EXCEPT !.line = Len(r.materials_data) + 1, !.errors = Append(@, error)]
continue(r, error) == [r EXCEPT !.line = @ + 1, !.errors = Append(@, error)]

\* views.py 372: the call fails when it has errors and created no binding.
BulkFailed_never(errors, created_materials) == FALSE
BulkFailed(errors, created_materials) == errors # <<>> /\ created_materials = 0

\* views.py 298-313: the order lookup and BulkOrderMaterialSerializer.
AddMaterialsBegin(p, u, o, materials_data) ==
  /\ Idle(p)
  /\ UNCHANGED <<items, orders, materials, history, nextMaterialId>>
  /\ IF ~(o \in DOMAIN orders /\ orders[o].user = u /\ ~orders[o].is_deleted)
     THEN Finish(p, Response(404, 0, <<>>))
     ELSE IF \E k \in DOMAIN materials_data : materials_data[k].quantity < MIN_QUANTITY
          THEN Finish(p, Response(400, 0, <<>>))
     ELSE Goto(p, "add_get", [NoReq EXCEPT !.user = u, !.order = o,
                 !.materials_data = materials_data, !.line = 1])

\* views.py 318-322: InventoryItem.objects.get runs inside the transaction
\* and sees the rows the transaction has written so far.
objects_get_committed(written) == items
objects_get(written) == Merge(items, written)

\* views.py 316-338: InventoryItem.objects.get inside the transaction and
\* the availability check of one line.
AddMaterialsGet(p) ==
  /\ At(p, "add_get")
  /\ Kept
  /\ req[p].line <= Len(req[p].materials_data)
  /\ LET r == req[p]
         material_data == r.materials_data[r.line]
         i == material_data.inventory_item
         rows == objects_get(r.tx_items)
         found == i \in DOMAIN rows /\ rows[i].user = r.user /\ ~rows[i].is_deleted
     IN IF ~found
        THEN Goto(p, "add_get", continue(r, LineError(i, "Item not found", 0)))
        ELSE IF InsufficientStock(rows[i], material_data.quantity)
        THEN Goto(p, "add_get", continue(r, LineError(i, "Insufficient stock",
                                                      rows[i].current_stock)))
        ELSE Goto(p, "add_save", [r EXCEPT !.target = i, !.item = rows[i],
               !.quantity = material_data.quantity])
  /\ UNCHANGED <<items, orders, materials, history, nextMaterialId>>

\* views.py 340-370: deduct, item.save(), OrderMaterial and StockHistory of
\* one line, all inside the open transaction.
AddMaterialsSave(p) ==
  /\ At(p, "add_save")
  /\ Kept
  /\ RowFree(p, req[p].target)
  /\ LET r == req[p]
         stock_before == r.item.current_stock
         item == [r.item EXCEPT !.current_stock = @ - r.quantity]
         order_material == nextMaterialId
     IN Goto(p, "add_get", [r EXCEPT
          !.line = @ + 1,
          !.tx_items = SaveItem(@, r.target, item),
          !.tx_materials = Merge(@, [m \in {order_material} |->
                                       OrderMaterial(r.order, r.target, r.quantity)]),
          !.tx_history = create(@,
             StockHistory(r.target, "OUT", "ORDER_USAGE", r.quantity,
                          stock_before, item.current_stock, r.order, order_material, now))])
  /\ nextMaterialId' = nextMaterialId + 1
  /\ UNCHANGED <<items, orders, materials, history>>

\* views.py 315, 372-379: leaving the atomic block commits; the response.
AddMaterialsCommit(p) ==
  /\ At(p, "add_get")
  /\ Kept
  /\ req[p].line > Len(req[p].materials_data)
  /\ LET r == req[p]
         created_materials == Cardinality(DOMAIN r.tx_materials)
     IN /\ items' = Merge(items, r.tx_items)
        /\ materials' = Merge(materials, r.tx_materials)
        /\ history' = history \o r.tx_history
        /\ IF BulkFailed(r.errors, created_materials)
           THEN Finish(p, Response(400, 0, r.errors))
           ELSE Finish(p, Response(201, created_materials, r.errors))
  /\ UNCHANGED <<orders, nextMaterialId>>

\* Handler p is in item.save() (views.py 344) and waits for the row lock
\* that the open transaction of handler q holds.
Waits(p, q) == pc[p] = "add_save" /\ req[p].target \in Locked(q)

\* Two calls wait for each other's row lock.  The database ends the cycle
\* by failing the save of one of them: the exception leaves the atomic
\* block (views.py 315), which rolls back, and the request ends with a
\* server error.
AddMaterialsDeadlock(p) ==
  /\ At(p, "add_save")
  /\ Kept
  /\ \E q \in Procs \ {p} : Waits(p, q) /\ Waits(q, p)
  /\ Finish(p, Response(500, 0, <<>>))
  /\ UNCHANGED <<items, orders, materials, history, nextMaterialId>>

(* -------------------------- order-materials --------------------------- *)
\* OrderMaterialViewSet.get_queryset, views.py 239-249.
MaterialVisible(u, m) ==
  /\ m \in DOMAIN materials
  /\ orders[materials[m].order].user = u

\* views.py 260-262: get_object; select_related loads the item with it.
DestroyLoad(p, u, m) ==
  /\ Idle(p)
  /\ UNCHANGED <<items, orders, materials, history, nextMaterialId>>
  /\ IF ~MaterialVisible(u, m) THEN Finish(p, Response(404, 0, <<>>))
     ELSE Goto(p, "destroy", [NoReq EXCEPT !.user = u, !.target = m,
                 !.instance = materials[m],
                 !.item = items[materials[m].inventory_item]])

\* instance.delete(): the row goes, and StockHistory.order_material
\* (on_delete=SET_NULL, models.py 211-217) of the rows that point to it is
\* set to NULL.
DeleteMaterial_skipped(rows, m) == rows
DeleteMaterial(rows, m) == [k \in DOMAIN rows \ {m} |-> rows[k]]

SetNull(entries, m) ==
  [k \in DOMAIN entries |->
     IF entries[k].order_material = m
     THEN [entries[k] EXCEPT !.order_material = NULL] ELSE entries[k]]

\* views.py 266-268: the balance RemoveMaterial writes back.
restore_forgotten(item, instance) == item
restore(item, instance) == [item EXCEPT !.current_stock = @ + instance.quantity]

\* views.py 264-286: the atomic block.
DestroyCommit(p) ==
  /\ At(p, "destroy")
  /\ RowFree(p, req[p].instance.inventory_item)
  /\ LET r == req[p]
         instance == r.instance
         stock_before == r.item.current_stock
         item == restore(r.item, instance)
     IN /\ items' = SaveItem(items, instance.inventory_item, item)
        /\ history' = create(SetNull(history, r.target),
             StockHistory(instance.inventory_item, "IN", "ORDER_CANCELLED",
                          instance.quantity, stock_before, item.current_stock,
                          instance.order, NULL, now))
        /\ materials' = DeleteMaterial(materials, r.target)
        /\ restored' = restored \cup {r.target}
  /\ removed' = removed \cup (DOMAIN materials \ DOMAIN materials')
  /\ Finish(p, Response(204, 0, <<>>))
  /\ UNCHANGED <<orders, nextMaterialId>>

\* ModelViewSet.create with OrderMaterialSerializer (views.py 234-237,
\* serializers.py 79-92, urls.py 15): the related fields accept any
\* existing order and item, the quantity is at least 0.01.
MaterialCreate(p, u, o, i, quantity) ==
  /\ Idle(p)
  /\ UNCHANGED <<items, orders, history>>
  /\ IF o \notin DOMAIN orders \/ i \notin DOMAIN items \/ quantity < MIN_QUANTITY
     THEN /\ Finish(p, Response(400, 0, <<>>))
          /\ UNCHANGED <<materials, nextMaterialId>>
     ELSE /\ materials' = Merge(materials, [m \in {nextMaterialId} |->
                                              OrderMaterial(o, i, quantity)])
          /\ nextMaterialId' = nextMaterialId + 1
          /\ Finish(p, Response(201, 1, <<>>))

\* ModelViewSet.update / partial_update: get_object and validation.
MaterialUpdateLoad(p, u, m, o, i, quantity) ==
  /\ Idle(p)
  /\ UNCHANGED <<items, orders, materials, history, nextMaterialId>>
  /\ IF ~MaterialVisible(u, m) THEN Finish(p, Response(404, 0, <<>>))
     ELSE IF o \notin DOMAIN orders \/ i \notin DOMAIN items \/ quantity < MIN_QUANTITY
          THEN Finish(p, Response(400, 0, <<>>))
     ELSE Goto(p, "material_update", [NoReq EXCEPT !.user = u, !.target = m,
                 !.instance = OrderMaterial(o, i, quantity)])

\* serializer.save(): instance.save() updates the row, and inserts it when
\* the UPDATE matched no row.
MaterialUpdateSave(p) ==
  /\ At(p, "material_update")
  /\ Kept
  /\ materials' = Merge(materials, [m \in {req[p].target} |-> req[p].instance])
  /\ Finish(p, Response(200, 0, <<>>))
  /\ UNCHANGED <<items, orders, history, nextMaterialId>>

(* ------------------------------- system ------------------------------- *)
Init ==
  /\ \E s \in 0..MaxQty :
       /\ items = [i \in {1} |-> InventoryItem(1, "Thread", s, DEFAULT_MINIMUM_STOCK, FALSE, 1)]
       /\ history = IF s > 0
                    THEN <<StockHistory(1, "IN", "INITIAL_STOCK", s, 0, s, NULL, NULL, 1)>>
                    ELSE <<>>
  /\ orders = [o \in OrderIds |-> Order(o, "PENDING", FALSE)]
  /\ categories = NoCategories
  /\ materials = NoBindings
  /\ nextMaterialId = 1
  /\ pc = [p \in Procs |-> "idle"]
  /\ req = [p \in Procs |-> NoReq]
  /\ response = NoResp
  /\ served = 0
  /\ removed = {}
  /\ restored = {}

Lines == [inventory_item : ItemIds, quantity : Quantities]

RECURSIVE SeqsUpTo(_, _)
SeqsUpTo(S, n) ==
  IF n = 0 THEN {<<>>}
  ELSE LET shorter == SeqsUpTo(S, n - 1)
       IN shorter \cup {Append(s, x) : s \in {t \in shorter : Len(t) = n - 1}, x \in S}

Batches == SeqsUpTo(Lines, MaxLines)

Next ==
  \/ \E p \in Procs, u \in Users, i \in ItemIds, q \in Quantities : StockInLoad(p, u, i, q)
  \/ \E p \in Procs : StockInCommit(p)
  \/ \E p \in Procs, u \in Users, i \in ItemIds, s \in Stocks, reason \in ReasonInputs :
        AdjustStockLoad(p, u, i, s, reason)
  \/ \E p \in Procs : AdjustStockCommit(p)
  \/ \E p \in Procs, u \in Users, name \in ItemNames, s \in Stocks :
        ItemCreate(p, u, name, s, DEFAULT_MINIMUM_STOCK)
  \/ \E p \in Procs : ItemCreateHistory(p)
  \/ \E p \in Procs, u \in Users, i \in ItemIds, partial \in BOOLEAN, s \in Stocks :
        ItemUpdateLoad(p, u, i, partial, s)
  \/ \E p \in Procs : ItemUpdateSave(p)
  \/ \E p \in Procs, u \in Users, i \in ItemIds : ItemDestroyLoad(p, u, i)
  \/ \E p \in Procs : ItemPerformDestroy(p)
  \/ \E p \in Procs, u \in Users, i \in ItemIds : ItemRetrieve(p, u, i)
  \/ \E p \in Procs, u \in Users, i \in ItemIds : ItemHistory(p, u, i)
  \/ \E p \in Procs, u \in Users, o \in OrderIds : OrderPerformDestroy(p, u, o)
  \/ \E p \in Procs, u \in Users, o \in OrderIds, b \in Batches : AddMaterialsBegin(p, u, o, b)
  \/ \E p \in Procs : AddMaterialsGet(p)
  \/ \E p \in Procs : AddMaterialsSave(p)
  \/ \E p \in Procs : AddMaterialsCommit(p)
  \/ \E p \in Procs, u \in Users, m \in MaterialIds : DestroyLoad(p, u, m)
  \/ \E p \in Procs : DestroyCommit(p)
  \/ \E p \in Procs, u \in Users, o \in OrderIds, i \in ItemIds, q \in Quantities :
        MaterialCreate(p, u, o, i, q)
  \/ \E p \in Procs, u \in Users, m \in MaterialIds, o \in OrderIds, i \in ItemIds,
        q \in Quantities : MaterialUpdateLoad(p, u, m, o, i, q)
  \/ \E p \in Procs : MaterialUpdateSave(p)

Spec == Init /\ [][Next]_vars

(* --------------------------- scenario systems -------------------------- *)
\* Requests that each ask AddMaterials for quantity 0.01 of item 1.
UnitLine == <<[inventory_item |-> 1, quantity |-> 1]>>

NextDeduct ==
  \/ \E p \in Procs : AddMaterialsBegin(p, 1, 1, UnitLine)
  \/ \E p \in Procs : AddMaterialsGet(p)
  \/ \E p \in Procs : AddMaterialsSave(p)
  \/ \E p \in Procs : AddMaterialsCommit(p)

SpecDeduct == Init /\ [][NextDeduct]_vars

\* Only the additive ledger operations, from concurrent handlers.
NextAdditive ==
  \/ \E p \in Procs, i \in ItemIds, q \in Quantities : StockInLoad(p, 1, i, q)
  \/ \E p \in Procs : StockInCommit(p)
  \/ \E p \in Procs, b \in Batches : AddMaterialsBegin(p, 1, 1, b)
  \/ \E p \in Procs : AddMaterialsGet(p)
  \/ \E p \in Procs : AddMaterialsSave(p)
  \/ \E p \in Procs : AddMaterialsCommit(p)
  \/ \E p \in Procs, m \in MaterialIds : DestroyLoad(p, 1, m)
  \/ \E p \in Procs : DestroyCommit(p)

SpecAdditive == Init /\ [][NextAdditive]_vars

\* The four ledger operations one after the other: a single handler.
NextSeq ==
  \/ \E i \in ItemIds, q \in Quantities : StockInLoad(1, 1, i, q)
  \/ StockInCommit(1)
  \/ \E i \in ItemIds, s \in Stocks, reason \in ReasonInputs : AdjustStockLoad(1, 1, i, s, reason)
  \/ AdjustStockCommit(1)
  \/ \E b \in Batches : AddMaterialsBegin(1, 1, 1, b)
  \/ AddMaterialsGet(1)
  \/ AddMaterialsSave(1)
  \/ AddMaterialsCommit(1)
  \/ \E m \in MaterialIds : DestroyLoad(1, 1, m)
  \/ DestroyCommit(1)

SpecSeq == Init /\ [][NextSeq]_vars

(* ------------------------------ two shops ------------------------------ *)
BulkLines == 3         \* lines of one AddMaterials call in the bulk system
BulkCalls == 2         \* a bulk call is one of the first BulkCalls requests of a run

Tenants == 1..NumTenants
OwnItems == 1..MaxItems            \* items of tenant 1
ForeignItem == MaxItems + 1        \* an item of tenant 2
MissingItem == MaxItems + 2        \* an id no row has
ShopItemIds == 1..MissingItem

\* The INITIAL_STOCK rows perform_create has written for items 1..n, item n
\* at clock reading n.
RECURSIVE InitialRows(_, _)
InitialRows(rows, n) ==
  IF n = 0 THEN <<>>
  ELSE IF rows[n].current_stock > 0
       THEN Append(InitialRows(rows, n - 1),
                   StockHistory(n, "IN", "INITIAL_STOCK", rows[n].current_stock,
                                0, rows[n].current_stock, NULL, NULL, n))
       ELSE InitialRows(rows, n - 1)

\* Tenant 1 has created the items OwnItems, tenant 2 the item ForeignItem,
\* each with stock MaxQty, and each tenant has one order.
InitShops ==
  /\ items = [i \in OwnItems \cup {ForeignItem} |->
                InventoryItem(IF i \in OwnItems THEN 1 ELSE NumTenants, "Thread",
                              MaxQty, DEFAULT_MINIMUM_STOCK, FALSE, i)]
  /\ history = InitialRows(items, ForeignItem)
  /\ orders = [o \in Tenants |-> Order(o, "PENDING", FALSE)]
  /\ categories = NoCategories
  /\ materials = NoBindings
  /\ nextMaterialId = 1
  /\ pc = [p \in Procs |-> "idle"]
  /\ req = [p \in Procs |-> NoReq]
  /\ response = NoResp
  /\ served = 0
  /\ removed = {}
  /\ restored = {}

BulkBatches == SeqsUpTo([inventory_item : ShopItemIds, quantity : 1..MaxQty], BulkLines)

\* Tenant 1 adds materials to its order in calls of up to BulkLines lines
\* and soft-deletes items, one request after the other.
NextBulk ==
  \/ \E b \in BulkBatches : served < BulkCalls /\ AddMaterialsBegin(1, 1, 1, b)
  \/ AddMaterialsGet(1)
  \/ AddMaterialsSave(1)
  \/ AddMaterialsCommit(1)
  \/ \E i \in ShopItemIds : ItemDestroyLoad(1, 1, i)
  \/ ItemPerformDestroy(1)

SpecBulk == InitShops /\ [][NextBulk]_vars

\* Every request of the inventory API, from either tenant and naming any
\* item, order or binding, one request after the other.
TenantBatches == SeqsUpTo([inventory_item : ShopItemIds, quantity : Quantities], MaxLines)

NextTenants ==
  \/ \E u \in Tenants, i \in ShopItemIds, q \in Quantities : StockInLoad(1, u, i, q)
  \/ StockInCommit(1)
  \/ \E u \in Tenants, i \in ShopItemIds, s \in Stocks, reason \in ReasonInputs :
        AdjustStockLoad(1, u, i, s, reason)
  \/ AdjustStockCommit(1)
  \/ \E u \in Tenants, name \in ItemNames, s \in Stocks :
        ItemCreate(1, u, name, s, DEFAULT_MINIMUM_STOCK)
  \/ ItemCreateHistory(1)
  \/ \E u \in Tenants, i \in ShopItemIds, partial \in BOOLEAN, s \in Stocks :
        ItemUpdateLoad(1, u, i, partial, s)
  \/ ItemUpdateSave(1)
  \/ \E u \in Tenants, i \in ShopItemIds : ItemDestroyLoad(1, u, i)
  \/ ItemPerformDestroy(1)
  \/ \E u \in Tenants, i \in ShopItemIds : ItemRetrieve(1, u, i)
  \/ \E u \in Tenants, i \in ShopItemIds : ItemHistory(1, u, i)
  \/ \E u \in Tenants, o \in Tenants, b \in TenantBatches : AddMaterialsBegin(1, u, o, b)
  \/ AddMaterialsGet(1)
  \/ AddMaterialsSave(1)
  \/ AddMaterialsCommit(1)
  \/ \E u \in Tenants, m \in MaterialIds : DestroyLoad(1, u, m)
  \/ DestroyCommit(1)
  \/ \E u \in Tenants, o \in Tenants, i \in ShopItemIds, q \in Quantities :
        MaterialCreate(1, u, o, i, q)
  \/ \E u \in Tenants, m \in MaterialIds, o \in Tenants, i \in ShopItemIds,
        q \in Quantities : MaterialUpdateLoad(1, u, m, o, i, q)
  \/ MaterialUpdateSave(1)

SpecTenants == InitShops /\ [][NextTenants]_vars

\* Concurrent calls of tenant 1, each of two lines of 0.01 over its items.
PairBatches ==
  {b \in SeqsUpTo([inventory_item : OwnItems, quantity : {MIN_QUANTITY}], 2) : Len(b) = 2}

NextPairs ==
  \/ \E p \in Procs, b \in PairBatches : AddMaterialsBegin(p, 1, 1, b)
  \/ \E p \in Procs : AddMaterialsGet(p)
  \/ \E p \in Procs : AddMaterialsSave(p)
  \/ \E p \in Procs : AddMaterialsCommit(p)
  \/ \E p \in Procs : AddMaterialsDeadlock(p)

SpecPairs == InitShops /\ [][NextPairs]_vars

(* --------------------------- a day of one item -------------------------- *)
\* The quantities of the scenario, in hundredths: an item with
\* minimum_stock 5, a purchase of 10 and a deduction of 8.
Scenario == [minimum_stock |-> 500, stock_in |-> 1000, deduct |-> 800]

ScenarioQuantities == {Scenario.stock_in, Scenario.deduct}

\* Tenant 1 has created item 1 with current_stock 0 and the minimum_stock
\* of the scenario: perform_create has written no history row for it.
InitScenario ==
  /\ items = [i \in {1} |-> InventoryItem(1, "Thread", 0, Scenario.minimum_stock, FALSE, 1)]
  /\ history = <<>>
  /\ orders = [o \in OrderIds |-> Order(o, "PENDING", FALSE)]
  /\ categories = NoCategories
  /\ materials = NoBindings
  /\ nextMaterialId = 1
  /\ pc = [p \in Procs |-> "idle"]
  /\ req = [p \in Procs |-> NoReq]
  /\ response = NoResp
  /\ served = 0
  /\ removed = {}
  /\ restored = {}

\* Item creation, purchases, deductions and removals with the quantities
\* of the scenario, one request after the other.
NextScenario ==
  \/ ItemCreate(1, 1, "Thread", 0, Scenario.minimum_stock)
  \/ \E i \in ItemIds, q \in ScenarioQuantities : StockInLoad(1, 1, i, q)
  \/ StockInCommit(1)
  \/ \E i \in ItemIds, q \in ScenarioQuantities :
        AddMaterialsBegin(1, 1, 1, <<[inventory_item |-> i, quantity |-> q]>>)
  \/ AddMaterialsGet(1)
  \/ AddMaterialsSave(1)
  \/ AddMaterialsCommit(1)
  \/ \E m \in MaterialIds : DestroyLoad(1, 1, m)
  \/ DestroyCommit(1)

SpecScenario == InitScenario /\ [][NextScenario]_vars

(* ------------------------- the bindings of an order ---------------------- *)
\* Tenant 1 adds materials to its order, edits the bindings through the
\* order-materials endpoint and removes them, one request after the other.
NextBindings ==
  \/ \E i \in OwnItems, q \in 1..MaxQty :
        AddMaterialsBegin(1, 1, 1, <<[inventory_item |-> i, quantity |-> q]>>)
  \/ AddMaterialsGet(1)
  \/ AddMaterialsSave(1)
  \/ AddMaterialsCommit(1)
  \/ \E m \in MaterialIds, i \in OwnItems, q \in Quantities :
        MaterialUpdateLoad(1, 1, m, 1, i, q)
  \/ MaterialUpdateSave(1)
  \/ \E m \in MaterialIds : DestroyLoad(1, 1, m)
  \/ DestroyCommit(1)

SpecBindings == InitShops /\ [][NextBindings]_vars

(* ----------------------------- the order desk --------------------------- *)
\* Requests of either tenant on the orders: status moves, updates and soft
\* deletes, one request after the other.
NextOrders ==
  \/ \E u \in Tenants, o \in Tenants, s \in StatusInputs : UpdateStatusLoad(1, u, o, s)
  \/ UpdateStatusSave(1)
  \/ \E u \in Tenants, o \in Tenants, partial \in BOOLEAN, s \in StatusInputs :
        OrderUpdateLoad(1, u, o, partial, s)
  \/ OrderUpdateSave(1)
  \/ \E u \in Tenants, o \in Tenants : OrderPerformDestroy(1, u, o)

SpecOrders == InitShops /\ [][NextOrders]_vars

(* --------------------------- the category desk -------------------------- *)
\* Requests of the category endpoint from either tenant, one after the
\* other: create, rename and soft delete.
NextCategories ==
  \/ \E u \in Tenants, name \in CategoryNames : CategoryCreate(1, u, name)
  \/ CategoryPerformCreate(1)
  \/ \E u \in Tenants, c \in CategoryIds, name \in CategoryNames :
        CategoryUpdateLoad(1, u, c, name)
  \/ CategoryUpdateSave(1)
  \/ \E u \in Tenants, c \in CategoryIds : CategoryDestroyLoad(1, u, c)
  \/ CategoryPerformDestroy(1)

SpecCategories == InitShops /\ [][NextCategories]_vars

(* ------------------------------ the shelf ------------------------------ *)
MaxShelf == 12         \* items of tenant 1 before the run starts

\* Tenant 1 has created n items, item k at clock reading k with
\* current_stock 0 or 0.01 in turn, all with minimum_stock MaxQty, named
\* in rising or in falling sort order, and one category.  Tenant 2 has one
\* item and one category.
InitShelf ==
  /\ \E n \in 0..MaxShelf, falling \in BOOLEAN :
       /\ items = [i \in (1..n) \cup {MaxShelf + 1} |->
                     IF i <= n
                     THEN InventoryItem(1, Collation[IF falling THEN n + 1 - i ELSE i],
                                        i % 2, MaxQty, FALSE, i)
                     ELSE InventoryItem(NumTenants, Collation[1], 0, MaxQty, FALSE, i)]
       /\ history = InitialRows(items, n)
  /\ categories = [c \in Tenants |-> InventoryCategory(c, "Fabric", FALSE)]
  /\ orders = [o \in Tenants |-> Order(o, "PENDING", FALSE)]
  /\ materials = NoBindings
  /\ nextMaterialId = 1
  /\ pc = [p \in Procs |-> "idle"]
  /\ req = [p \in Procs |-> NoReq]
  /\ response = NoResp
  /\ served = 0
  /\ removed = {}
  /\ restored = {}

\* The dashboard of either tenant, and purchases, soft deletes and category
\* requests of tenant 1 in between, one request after the other.
NextShelf ==
  \/ \E u \in Tenants : InventoryDashboard(1, u)
  \/ \E i \in ItemIds, q \in 1..MaxQty : StockInLoad(1, 1, i, q)
  \/ StockInCommit(1)
  \/ \E i \in ItemIds : ItemDestroyLoad(1, 1, i)
  \/ ItemPerformDestroy(1)
  \/ CategoryCreate(1, 1, "Buttons")
  \/ CategoryPerformCreate(1)
  \/ \E c \in CategoryIds : CategoryDestroyLoad(1, 1, c)
  \/ CategoryPerformDestroy(1)

SpecShelf == InitShelf /\ [][NextShelf]_vars

(* ---------------------------- a long ledger ---------------------------- *)
MaxHistory == 60       \* purchases made before the run starts
OtherEvery == 8        \* every OtherEvery-th of them was for item 2

\* The item of the k-th purchase, the number of purchases of that item
\* among the first k, and the last of the first n purchases that was for
\* item i (0 when there is none).
PurchasedItem(k) == IF k % OtherEvery = 0 THEN 2 ELSE 1
PurchasedSoFar(i, k) == IF i = 2 THEN k \div OtherEvery ELSE k - (k \div OtherEvery)
LastPurchase(i, n) == Max({0} \cup {k \in 1..n : PurchasedItem(k) = i})

\* Tenant 1 has created items 1 and 2 with current_stock 0 (no history row)
\* and then made n purchases of 0.01, one request after the other: the k-th
\* wrote its history row at reading k and saved its item at reading 2 + k.
InitLedger ==
  /\ \E n \in 0..MaxHistory :
       /\ items = [i \in {1, 2} |->
                     InventoryItem(1, "Thread", PurchasedSoFar(i, n), DEFAULT_MINIMUM_STOCK,
                                   FALSE,
                                   IF LastPurchase(i, n) = 0 THEN i ELSE 2 + LastPurchase(i, n))]
       /\ history = [k \in 1..n |->
                       StockHistory(PurchasedItem(k), "IN", "PURCHASE", MIN_QUANTITY,
                                    PurchasedSoFar(PurchasedItem(k), k) - MIN_QUANTITY,
                                    PurchasedSoFar(PurchasedItem(k), k), NULL, NULL, k)]
  /\ orders = [o \in OrderIds |-> Order(o, "PENDING", FALSE)]
  /\ categories = NoCategories
  /\ materials = NoBindings
  /\ nextMaterialId = 1
  /\ pc = [p \in Procs |-> "idle"]
  /\ req = [p \in Procs |-> NoReq]
  /\ response = NoResp
  /\ served = 0
  /\ removed = {}
  /\ restored = {}

\* Further purchases, deductions and history queries of tenant 1, one
\* request after the other.
NextLedger ==
  \/ \E i \in ItemIds : StockInLoad(1, 1, i, MIN_QUANTITY)
  \/ StockInCommit(1)
  \/ \E i \in ItemIds : AddMaterialsBegin(1, 1, 1, <<[inventory_item |-> i, quantity |-> MIN_QUANTITY]>>)
  \/ AddMaterialsGet(1)
  \/ AddMaterialsSave(1)
  \/ AddMaterialsCommit(1)
  \/ \E i \in ItemIds : ItemHistory(1, 1, i)

SpecLedger == InitLedger /\ [][NextLedger]_vars

(* ------------------------------ properties ----------------------------- *)
Quiescent == \A p \in Procs : pc[p] = "idle"

\* The balance item 1 was created with: Init leaves its INITIAL_STOCK row
\* first in the log when that balance is positive.
OriginalBalance ==
  IF history # <<>> /\ history[1].reason = "INITIAL_STOCK"
  THEN history[1].quantity ELSE 0

\* Every copy of an item row there is: committed, loaded by a handler, or
\* written by an open transaction.
Balances ==
  {items[i].current_stock : i \in DOMAIN items}
    \cup {req[p].item.current_stock : p \in Procs}
    \cup UNION {{req[p].tx_items[i].current_stock : i \in DOMAIN req[p].tx_items} : p \in Procs}

\* Every StockHistory row there is: committed or written by an open transaction.
Entries ==
  {history[k] : k \in DOMAIN history}
    \cup UNION {{req[p].tx_history[k] : k \in DOMAIN req[p].tx_history} : p \in Procs}

Magnitude(x) == IF x < 0 THEN 0 - x ELSE x

Last(entries) == entries[Len(entries)]

\* Handler p leaves the step `label` with a response in this transition.
Returns(p, label) == pc[p] = label /\ pc'[p] = "idle"

\* The rows this transition appends to the committed log.
Appended == {k \in DOMAIN history' : k > Len(history)}

\* The last row this transition appends for item i.
LastAppended(i) ==
  history'[CHOOSE k \in Appended :
             /\ history'[k].inventory_item = i
             /\ \A j \in Appended : history'[j].inventory_item = i => j <= k]

\* C1: in every reachable state, whatever the interleaving of item create /
\* update, stock_in, adjust_stock, AddMaterials and RemoveMaterial, every
\* copy of every InventoryItem row has current_stock >= 0.
C1_NonNegativeStock == \A b \in Balances : b >= 0

\* Two AddMaterials calls have deducted from the same balance of one item.
C1_Witness ==
  \E j, k \in DOMAIN history :
    /\ j < k
    /\ history[j].reason = "ORDER_USAGE" /\ history[k].reason = "ORDER_USAGE"
    /\ history[j].inventory_item = history[k].inventory_item
    /\ history[j].stock_before = history[k].stock_before
    /\ items[history[k].inventory_item].current_stock = 0

\* C2: when N requests call AddMaterials for quantity 0.01 of one item with
\* balance B, then once all have returned exactly min(N, B) have succeeded
\* (one binding and one OUT row each) and the balance is B - min(N, B).
C2_ExactlyMinSucceed ==
  Quiescent =>
    /\ Cardinality(DOMAIN materials) = Min(served, OriginalBalance)
    /\ items[1].current_stock = OriginalBalance - Min(served, OriginalBalance)

RECURSIVE SignedSum(_)
SignedSum(entries) ==
  IF entries = <<>> THEN 0
  ELSE LET e == Last(entries)
           rest == SubSeq(entries, 1, Len(entries) - 1)
       IN SignedSum(rest)
            + (IF e.inventory_item # 1 \/ e.reason = "INITIAL_STOCK" THEN 0
               ELSE IF e.transaction_type = "IN" THEN e.quantity
               ELSE 0 - e.quantity)

\* C3: with only additive operations (stock_in, AddMaterials, RemoveMaterial)
\* no successful write is lost: once all requests have returned, the balance
\* of item 1 is its original balance plus the signed quantities of the rows
\* the successful requests wrote.
C3_NoLostUpdate ==
  Quiescent => items[1].current_stock = OriginalBalance + SignedSum(history)

\* The quantity the OUT rows among `entries` take from item i.
RECURSIVE Deducted(_, _)
Deducted(entries, i) ==
  IF entries = <<>> THEN 0
  ELSE Deducted(SubSeq(entries, 1, Len(entries) - 1), i)
         + (IF Last(entries).inventory_item = i THEN Last(entries).quantity ELSE 0)

\* C4: in a sequence of StockIn, AdjustStock, Deduct and Restore that do not
\* overlap, each step leaves the balance of its item at the balance before
\* the step plus the step's delta: +q for StockIn and Restore, -q for
\* Deduct, and exactly newBalance for Adjust.
C4_StepDelta ==
  [][\A p \in Procs :
       LET r == req[p]
           before(i) == items[i].current_stock
           after(i) == items'[i].current_stock
       IN /\ Returns(p, "stock_in") => after(r.target) = before(r.target) + r.quantity
          /\ Returns(p, "adjust_stock") => after(r.target) = r.quantity
          /\ Returns(p, "destroy") =>
               after(r.instance.inventory_item)
                 = before(r.instance.inventory_item) + r.instance.quantity
          /\ Returns(p, "add_get") =>
               \A i \in DOMAIN r.tx_items :
                 after(i) = before(i) - Deducted(r.tx_history, i)
    ]_vars

\* A deduction, its restoration and an adjustment have been made in turn.
C4_Witness ==
  /\ Quiescent
  /\ \E j, k, l \in DOMAIN history :
       /\ j < k /\ k < l
       /\ history[j].reason = "ORDER_USAGE"
       /\ history[k].reason = "ORDER_CANCELLED"
       /\ history[l].transaction_type = "ADJUSTMENT"
       /\ history[l].stock_after # history[l].stock_before

\* C5: every StockHistory row ever written has stock_after - stock_before =
\* +quantity when it is IN, -quantity when it is OUT, and
\* |stock_after - stock_before| = quantity when it is ADJUSTMENT.
C5_EntryArithmetic ==
  \A e \in Entries :
    CASE e.transaction_type = "IN" -> e.stock_after - e.stock_before = e.quantity
      [] e.transaction_type = "OUT" -> e.stock_after - e.stock_before = 0 - e.quantity
      [] e.transaction_type = "ADJUSTMENT" ->
           Magnitude(e.stock_after - e.stock_before) = e.quantity
      [] OTHER -> FALSE

\* The log holds an adjustment that lowered the balance next to an OUT row.
C5_Witness ==
  /\ \E k \in DOMAIN history :
       /\ history[k].transaction_type = "ADJUSTMENT"
       /\ history[k].stock_after < history[k].stock_before
  /\ \E k \in DOMAIN history : history[k].transaction_type = "OUT"

\* C6: each successful StockIn, AdjustStock and RemoveMaterial appends
\* exactly one StockHistory row and AddMaterials one per line it deducted,
\* and the balance and the row commit together: the step that writes the
\* balance appends the row, and the balance an appended row (other than
\* INITIAL_STOCK) reports is the committed balance after that step.
C6_BalanceAndRowTogether ==
  [][/\ \A p \in Procs :
          /\ (Returns(p, "stock_in") \/ Returns(p, "adjust_stock"))
               => /\ Len(history') = Len(history) + 1
                  /\ Last(history').inventory_item = req[p].target
          /\ Returns(p, "destroy")
               => /\ Len(history') = Len(history) + 1
                  /\ Last(history').inventory_item = req[p].instance.inventory_item
          /\ Returns(p, "add_get")
               => /\ Len(history') = Len(history) + Cardinality(DOMAIN req[p].tx_materials)
                  /\ \A i \in DOMAIN req[p].tx_items :
                       \E k \in Appended : history'[k].inventory_item = i
     /\ \A k \in Appended :
          history'[k].reason # "INITIAL_STOCK" =>
            LET i == history'[k].inventory_item
            IN items'[i].current_stock = LastAppended(i).stock_after
    ]_vars

\* A deduction and its restoration are in the log, after a purchase or an adjustment.
C6_Witness ==
  /\ \E k \in DOMAIN history : history[k].reason = "ORDER_USAGE"
  /\ \E k \in DOMAIN history : history[k].reason = "ORDER_CANCELLED"
  /\ \E k \in DOMAIN history : history[k].reason \in {"PURCHASE", "MANUAL_ADJUSTMENT"}

\* C7: StockHistory is append-only: no operation changes a field of a row
\* already written or removes it, RemoveMaterial of the binding a row
\* references included.
C7_AppendOnly ==
  [][/\ Len(history') >= Len(history)
     /\ \A k \in DOMAIN history : history'[k] = history[k]]_vars

\* C8: AddMaterials deducting q from an item, followed at once by
\* RemoveMaterial of the binding it created, leaves the balance at its value
\* before the deduction and has appended two rows: the OUT / ORDER_USAGE row
\* and one IN / ORDER_CANCELLED row of the same quantity.
C8_RoundTrip ==
  [][\A p \in Procs :
       (/\ Returns(p, "destroy")
        /\ history # <<>>
        /\ Last(history).reason = "ORDER_USAGE"
        /\ Last(history).order_material = req[p].target)
       => LET out == Last(history)
              in == Last(history')
          IN /\ Len(history') = Len(history) + 1
             /\ in.transaction_type = "IN" /\ in.reason = "ORDER_CANCELLED"
             /\ in.quantity = out.quantity
             /\ in.inventory_item = out.inventory_item
             /\ items'[out.inventory_item].current_stock = out.stock_before
    ]_vars

\* The round trip has been made: the last two rows are a deduction and the
\* restoration of the same quantity.
C8_Witness ==
  /\ Quiescent
  /\ Len(history) >= 2
  /\ history[Len(history) - 1].reason = "ORDER_USAGE"
  /\ Last(history).reason = "ORDER_CANCELLED"
  /\ Last(history).quantity = history[Len(history) - 1].quantity
  /\ items[Last(history).inventory_item].current_stock > 0

C10_BindingWasDeducted ==
  \A m \in DOMAIN materials :
    \E k \in DOMAIN history :
      /\ history[k].reason = "ORDER_USAGE"
      /\ history[k].transaction_type = "OUT"
      /\ history[k].order_material = m
      /\ history[k].inventory_item = materials[m].inventory_item
      /\ history[k].quantity = materials[m].quantity
      /\ history[k].stock_before >= materials[m].quantity

(* ------------------------- one AddMaterials call ------------------------ *)
\* Item i is a row of tenant u that is not soft-deleted.
Resolvable(rows, u, i) ==
  i \in DOMAIN rows /\ rows[i].user = u /\ ~rows[i].is_deleted

\* Remaining: what the first k lines of a call leave of the balance of item
\* i.  LineValid: line k names a resolvable item whose remaining balance
\* covers the quantity of the line.
RECURSIVE Remaining(_, _, _, _, _), LineValid(_, _, _, _)
Remaining(rows, u, data, k, i) ==
  IF k = 0 THEN rows[i].current_stock
  ELSE Remaining(rows, u, data, k - 1, i)
         - (IF data[k].inventory_item = i /\ LineValid(rows, u, data, k)
            THEN data[k].quantity ELSE 0)
LineValid(rows, u, data, k) ==
  /\ Resolvable(rows, u, data[k].inventory_item)
  /\ Remaining(rows, u, data, k - 1, data[k].inventory_item) >= data[k].quantity

\* The j-th smallest member of a set of line numbers.
Nth(S, j) == CHOOSE k \in S : Cardinality({l \in S : l < k}) = j - 1

\* C11: partial success of AddMaterials: of a call that is not overlapped by
\* another request, exactly the lines that name a resolvable item with
\* enough stock are committed, each with one OrderMaterial, the balance of
\* its item reduced by its quantity and exactly one OUT / ORDER_USAGE row
\* linked to the binding with the same item, order and quantity; every
\* other line yields exactly one line error.
C11_PartialSuccess ==
  [][\A p \in Procs :
       Returns(p, "add_get") =>
         LET r == req[p]
             data == r.materials_data
             valid == {k \in DOMAIN data : LineValid(items, r.user, data, k)}
             invalid == DOMAIN data \ valid
             new == DOMAIN materials' \ DOMAIN materials
         IN /\ Cardinality(new) = Cardinality(valid)
            /\ response'.created = Cardinality(valid)
            /\ valid # {} => response'.status = 201
            /\ Len(response'.errors) = Cardinality(invalid)
            /\ \A j \in 1..Cardinality(invalid) :
                 response'.errors[j].item = data[Nth(invalid, j)].inventory_item
            /\ Len(history') = Len(history) + Cardinality(valid)
            /\ \A j \in 1..Cardinality(valid) :
                 LET line == data[Nth(valid, j)]
                     h == history'[Len(history) + j]
                 IN /\ h.transaction_type = "OUT" /\ h.reason = "ORDER_USAGE"
                    /\ h.inventory_item = line.inventory_item
                    /\ h.quantity = line.quantity
                    /\ h.order = r.order
                    /\ h.order_material \in new
                    /\ materials'[h.order_material]
                         = [order |-> r.order, inventory_item |-> line.inventory_item,
                            quantity |-> line.quantity]
            /\ \A m \in new :
                 Cardinality({k \in Appended : history'[k].order_material = m}) = 1
            /\ \A i \in DOMAIN items :
                 /\ items'[i].current_stock = Remaining(items, r.user, data, Len(data), i)
                 /\ items'[i].user = items[i].user
    ]_vars

\* The first call of a run had three lines, one of them naming an id that
\* no row has: the two others are committed, for two items.
C11_Witness ==
  /\ Quiescent /\ served = 1
  /\ response.status = 201 /\ response.created = 2
  /\ Len(response.errors) = 1 /\ response.errors[1].item = MissingItem
  /\ Cardinality(DOMAIN materials) = 2
  /\ \E m, n \in DOMAIN materials : materials[m].inventory_item # materials[n].inventory_item

\* C12: when a call of at least one line has no valid line (every line
\* names an item that is missing, soft-deleted or foreign, or asks for more
\* than is left), the call fails as a whole with status 400 and one error
\* per line, and no item, OrderMaterial or StockHistory row differs from
\* before the call.
C12_AllLinesFail ==
  [][\A p \in Procs :
       (/\ Returns(p, "add_get")
        /\ req[p].materials_data # <<>>
        /\ \A k \in DOMAIN req[p].materials_data :
             ~LineValid(items, req[p].user, req[p].materials_data, k))
       => /\ response'.status = 400
          /\ response'.created = 0
          /\ Len(response'.errors) = Len(req[p].materials_data)
          /\ UNCHANGED <<items, materials, history, orders>>
    ]_vars

\* The second call of a run has failed with three line errors: one line
\* asked for more than the first call had left, one named the item of the
\* other tenant and one an id that no row has.
C12_Witness ==
  /\ Quiescent /\ served = 2
  /\ response.status = 400 /\ Len(response.errors) = 3
  /\ \E j \in 1..3 : response.errors[j].error = "Insufficient stock"
  /\ \E j \in 1..3 : response.errors[j].item = ForeignItem
  /\ \E j \in 1..3 : response.errors[j].item = MissingItem
  /\ materials # NoBindings

\* The step in which handler p works on a line of its AddMaterials call.
LineStep(p) ==
  /\ pc[p] = "add_get"
  /\ req[p].line <= Len(req[p].materials_data)
  /\ req'[p] # req[p]

\* The row of item i as handler p reads it: its own write when it has made
\* one, the committed row otherwise.
Read(p, i) == IF i \in DOMAIN req[p].tx_items THEN req[p].tx_items[i] ELSE items[i]

\* C13: an AddMaterials line whose quantity exceeds the balance of its item
\* yields an "Insufficient stock" line error that reports the available
\* quantity and deducts nothing for the line: no balance changes, no
\* OrderMaterial and no StockHistory row is written for it, and the error
\* is in the response of the call.
C13_InsufficientLine ==
  [][\A p \in Procs :
       /\ LineStep(p) =>
            LET r == req[p]
                line == r.materials_data[r.line]
                i == line.inventory_item
            IN (/\ i \in DOMAIN items
                /\ Read(p, i).user = r.user /\ ~Read(p, i).is_deleted
                /\ line.quantity > Read(p, i).current_stock)
               => /\ req'[p].errors
                       = Append(r.errors, [item |-> i, error |-> "Insufficient stock",
                                           available |-> Read(p, i).current_stock])
                  /\ req'[p].tx_items = r.tx_items
                  /\ req'[p].tx_materials = r.tx_materials
                  /\ req'[p].tx_history = r.tx_history
                  /\ req'[p].line = r.line + 1
                  /\ pc'[p] = "add_get"
                  /\ UNCHANGED <<items, materials, history>>
       /\ Returns(p, "add_get") => response'.errors = req[p].errors
    ]_vars

\* A call has been refused a line that asked for more than the positive
\* balance of its item, and has deducted nothing.
C13_Witness ==
  /\ Quiescent
  /\ response.status = 400
  /\ Len(response.errors) = 1
  /\ response.errors[1].error = "Insufficient stock"
  /\ response.errors[1].available > 0
  /\ items[response.errors[1].item].current_stock = response.errors[1].available
  /\ materials = NoBindings

\* C14: concurrent AddMaterials calls that name overlapping items in
\* different line orders never deadlock: no two calls ever wait for each
\* other's row lock, and no call is ended by the database to break such a
\* cycle.
C14_NoDeadlock ==
  /\ \A p, q \in Procs : p # q => ~(Waits(p, q) /\ Waits(q, p))
  /\ response.status # 500

(* --------------------------- tenant isolation --------------------------- *)
\* Item i, order o or binding m is a row of a tenant other than u.
ForeignRow(u, i) == i \in DOMAIN items /\ items[i].user # u
ForeignOrder(u, o) == o \in DOMAIN orders /\ orders[o].user # u
ForeignBinding(u, m) == m \in DOMAIN materials /\ orders[materials[m].order].user # u

\* The step changes nothing of the items of the other tenants: not the
\* row, no StockHistory row is added for it and no binding is made to it.
Isolated(u) ==
  \A i \in DOMAIN items :
    items[i].user # u =>
      /\ items'[i] = items[i]
      /\ \A k \in Appended : history'[k].inventory_item # i
      /\ \A m \in DOMAIN materials' :
           materials'[m].inventory_item = i
             => m \in DOMAIN materials /\ materials[m].inventory_item = i

\* C15: tenant isolation: every request of tenant u that names an item,
\* order or binding of another tenant is answered NotFound (or refused as
\* invalid by the order-materials endpoint), and no step of a request of u
\* changes the balance of an item of another tenant, adds a StockHistory
\* row for it or binds it to an order.
C15_TenantIsolation ==
  [][\A p \in Procs, u \in Tenants :
       /\ \A i \in ShopItemIds :
            ForeignRow(u, i) =>
              /\ (\/ \E q \in Quantities : StockInLoad(p, u, i, q)
                  \/ \E st \in Stocks, reason \in ReasonInputs :
                       AdjustStockLoad(p, u, i, st, reason)
                  \/ \E partial \in BOOLEAN, st \in Stocks :
                       ItemUpdateLoad(p, u, i, partial, st)
                  \/ ItemDestroyLoad(p, u, i)
                  \/ ItemRetrieve(p, u, i)
                  \/ ItemHistory(p, u, i))
                 => response'.status = 404
              /\ (\E o \in Tenants, q \in Quantities : MaterialCreate(p, u, o, i, q))
                 => response'.status \in {400, 404}
       /\ \A o \in Tenants :
            ForeignOrder(u, o) =>
              /\ (\E b \in TenantBatches : AddMaterialsBegin(p, u, o, b))
                 => response'.status = 404
              /\ (\E i \in ShopItemIds, q \in Quantities : MaterialCreate(p, u, o, i, q))
                 => response'.status \in {400, 404}
       /\ \A m \in MaterialIds :
            ForeignBinding(u, m) =>
              ((\/ DestroyLoad(p, u, m)
                \/ \E o \in Tenants, i \in ShopItemIds, q \in Quantities :
                     MaterialUpdateLoad(p, u, m, o, i, q))
               => response'.status = 404)
       /\ (pc[p] # "idle" /\ req[p].user = u /\ <<pc[p], req[p]>> # <<pc'[p], req'[p]>>)
            => Isolated(u)
       /\ (\E o \in Tenants, i \in ShopItemIds, q \in Quantities : MaterialCreate(p, u, o, i, q))
            => Isolated(u)
    ]_vars

\* C16: soft-deleting an item deletes none of its OrderMaterial bindings
\* and none of its StockHistory rows and takes the item out of the item
\* listing; afterwards the item is still resolvable by id: the detail and
\* the history query of its owner answer 200.
C16_SoftDeleteKeepsAudit ==
  [][\A p \in Procs :
       /\ Returns(p, "item_destroy") =>
            /\ UNCHANGED <<materials, history>>
            /\ items'[req[p].target].is_deleted
            /\ \A u \in Users :
                 ~(items'[req[p].target].user = u /\ ~items'[req[p].target].is_deleted)
       /\ \A u \in Users, i \in ItemIds :
            (/\ i \in DOMAIN items /\ items[i].user = u /\ items[i].is_deleted
             /\ (ItemRetrieve(p, u, i) \/ ItemHistory(p, u, i)))
            => response'.status = 200
    ]_vars

\* C17: StockIn and AdjustStock on an item that is missing or soft-deleted
\* answer NotFound and change nothing, an AddMaterials line that names a
\* soft-deleted item yields an "Item not found" line error without a
\* deduction, and once an item is soft-deleted no StockIn, AdjustStock or
\* AddMaterials changes its balance.
C17_DeletedItemUntouched ==
  [][\A p \in Procs :
       /\ \A u \in Tenants, i \in ShopItemIds :
            (/\ i \notin DOMAIN items \/ items[i].is_deleted
             /\ \/ \E q \in Quantities : StockInLoad(p, u, i, q)
                \/ \E st \in Stocks, reason \in ReasonInputs :
                     AdjustStockLoad(p, u, i, st, reason))
            => /\ response'.status = 404
               /\ UNCHANGED <<items, materials, history>>
       /\ LineStep(p) =>
            LET r == req[p]
                i == r.materials_data[r.line].inventory_item
            IN (i \in DOMAIN items /\ Read(p, i).is_deleted)
               => /\ req'[p].errors
                       = Append(r.errors, [item |-> i, error |-> "Item not found",
                                           available |-> 0])
                  /\ req'[p].tx_items = r.tx_items
                  /\ req'[p].tx_materials = r.tx_materials
                  /\ req'[p].tx_history = r.tx_history
                  /\ UNCHANGED <<items, materials, history>>
       /\ (Returns(p, "stock_in") \/ Returns(p, "adjust_stock") \/ Returns(p, "add_get"))
            => \A i \in DOMAIN items :
                 items[i].is_deleted => items'[i] = items[i]
    ]_vars

\* Nothing of the store changes and handler p has answered with status 400,
\* or with 404 when the row the request names is not one the caller can see.
Rejected(p, seen) ==
  /\ pc'[p] = "idle"
  /\ response'.status = IF seen THEN 400 ELSE 404
  /\ UNCHANGED <<items, orders, materials, history, nextMaterialId>>

\* C18: invalid quantities are rejected before any mutation: StockIn with a
\* quantity <= 0, AdjustStock with a new balance < 0 or a reason other than
\* DAMAGED and MANUAL_ADJUSTMENT, and AddMaterials with a line of quantity
\* <= 0 are answered with a validation error and leave every item balance,
\* binding and history row as they were.
C18_InvalidRejected ==
  [][\A p \in Procs, u \in Tenants :
       /\ \A i \in ShopItemIds :
            /\ (\E q \in Quantities : q <= 0 /\ StockInLoad(p, u, i, q))
                 => Rejected(p, Resolvable(items, u, i))
            /\ (\E st \in Stocks, reason \in ReasonInputs :
                   /\ st < 0 \/ reason \notin {"DAMAGED", "MANUAL_ADJUSTMENT"}
                   /\ AdjustStockLoad(p, u, i, st, reason))
                 => Rejected(p, Resolvable(items, u, i))
       /\ \A o \in Tenants :
            (\E b \in Batches :
               /\ \E k \in DOMAIN b : b[k].quantity <= 0
               /\ AddMaterialsBegin(p, u, o, b))
            => Rejected(p, o \in DOMAIN orders /\ orders[o].user = u /\ ~orders[o].is_deleted)
    ]_vars

\* A request has been refused as invalid after a purchase and a deduction
\* were made: the rows they wrote are all there is.
C18_Witness ==
  /\ Quiescent /\ served = MaxRequests
  /\ response.status = 400 /\ response.errors = <<>>
  /\ \E k \in DOMAIN history : history[k].reason = "PURCHASE"
  /\ Last(history).reason = "ORDER_USAGE"
  /\ items[Last(history).inventory_item].current_stock = Last(history).stock_after

\* The rows of the log that record the initial stock of item i.
InitialEntries(entries, i) ==
  {k \in DOMAIN entries :
     entries[k].inventory_item = i /\ entries[k].reason = "INITIAL_STOCK"}

\* C19: InitialStock is recorded exactly once per item and only at
\* creation: creating an item with balance q > 0 appends exactly one row
\* {IN, INITIAL_STOCK, quantity q, stock_before 0, stock_after q}, creating
\* it with balance 0 appends none, no other operation appends an
\* INITIAL_STOCK row, and an INITIAL_STOCK row is the earliest row of its
\* item.
C19_InitialStockOnce ==
  [][/\ \A p \in Procs :
          Returns(p, "create_history") =>
            /\ Len(history') = Len(history) + 1
            /\ Last(history')
                 = [inventory_item |-> req[p].target, transaction_type |-> "IN",
                    reason |-> "INITIAL_STOCK",
                    quantity |-> req[p].item.current_stock,
                    stock_before |-> 0,
                    stock_after |-> req[p].item.current_stock,
                    order |-> NULL, order_material |-> NULL, created_at |-> now]
     /\ (\A p \in Procs : ~Returns(p, "create_history"))
          => \A k \in Appended : history'[k].reason # "INITIAL_STOCK"
     /\ \A i \in DOMAIN items' :
          /\ Cardinality(InitialEntries(history', i)) <= 1
          /\ i \notin DOMAIN items /\ items'[i].current_stock = 0
               => InitialEntries(history', i) = {}
          /\ \A k \in InitialEntries(history', i) :
               /\ history'[k].quantity > 0
               /\ \A j \in 1..(k - 1) : history'[j].inventory_item # i
    ]_vars

\* The log holds exactly the purchase of the scenario for item 1.
AfterStockIn ==
  /\ Len(history) = 1
  /\ history[1].inventory_item = 1 /\ history[1].reason = "PURCHASE"
  /\ history[1].quantity = Scenario.stock_in

\* The log holds the purchase of the scenario and then its deduction.
AfterDeduct ==
  /\ Len(history) = 2
  /\ history[1].inventory_item = 1 /\ history[1].reason = "PURCHASE"
  /\ history[1].quantity = Scenario.stock_in
  /\ history[2].inventory_item = 1 /\ history[2].reason = "ORDER_USAGE"
  /\ history[2].quantity = Scenario.deduct

\* The StockHistory rows of item i.
RowsOf(entries, i) == {k \in DOMAIN entries : entries[k].inventory_item = i}

\* C20: the scenario trace.  An item is created with current_stock 0 and
\* minimum_stock 5 (no history row).  StockIn 10 gives balance 10 and
\* is_low_stock false; AddMaterials deducting 8 for the order gives balance
\* 2 and is_low_stock true; RemoveMaterial of that binding gives balance 10
\* and is_low_stock false, and the item then has exactly 3 StockHistory rows.
C20_ScenarioTrace ==
  [][/\ \A i \in DOMAIN items' \ DOMAIN items :
          /\ items'[i] = [user |-> 1, name |-> "Thread", current_stock |-> 0,
                          minimum_stock |-> Scenario.minimum_stock, is_deleted |-> FALSE,
                          updated_at |-> auto_now]
          /\ RowsOf(history', i) = {}
          /\ pc'[1] = "idle"
     /\ (/\ Returns(1, "stock_in")
         /\ req[1].target = 1 /\ req[1].quantity = Scenario.stock_in
         /\ history = <<>>)
        => /\ items'[1].current_stock = 1000
           /\ ~is_low_stock(items'[1])
           /\ Cardinality(RowsOf(history', 1)) = 1
     /\ (/\ Returns(1, "add_get")
         /\ req[1].materials_data = <<[inventory_item |-> 1, quantity |-> Scenario.deduct]>>
         /\ AfterStockIn)
        => /\ items'[1].current_stock = 200
           /\ is_low_stock(items'[1])
           /\ Cardinality(RowsOf(history', 1)) = 2
           /\ response'.status = 201
     /\ (/\ Returns(1, "destroy")
         /\ AfterDeduct
         /\ req[1].target = history[2].order_material)
        => /\ items'[1].current_stock = 1000
           /\ ~is_low_stock(items'[1])
           /\ Cardinality(RowsOf(history', 1)) = 3
           /\ Len(history') = 3
           /\ materials' = NoBindings
    ]_vars

\* The scenario has been played to its end.
C20_Witness ==
  /\ Quiescent /\ served = 3
  /\ Len(history) = 3
  /\ history[1].reason = "PURCHASE" /\ history[1].quantity = Scenario.stock_in
  /\ history[2].reason = "ORDER_USAGE" /\ history[2].quantity = Scenario.deduct
  /\ history[3].reason = "ORDER_CANCELLED" /\ history[3].quantity = Scenario.deduct
  /\ \A k \in 1..3 : history[k].inventory_item = 1
  /\ items[1].current_stock = Scenario.stock_in
  /\ response.status = 204

\* C21: every StockHistory row has a quantity strictly greater than zero,
\* whatever operation wrote it: an AdjustStock whose new balance equals the
\* balance of the item writes no row of quantity 0.
C21_PositiveQuantity == \A e \in Entries : e.quantity > 0

\* C22: the item history query answers with rows of the item only, ordered
\* newest first, and at most HISTORY_LIMIT (50) of them: all rows of the
\* item when it has no more than that, and otherwise exactly the 50 created
\* last, every row left out being older than every row returned.
C22_HistoryQuery ==
  [][\A p \in Procs, u \in Users, i \in ItemIds :
       (ItemHistory(p, u, i) /\ response'.status = 200) =>
         LET data == response'.data
             returned == {data[j] : j \in DOMAIN data}
         IN /\ Len(data) <= 50
            /\ Len(data) = Min(Cardinality(RowsOf(history, i)), 50)
            /\ Cardinality(returned) = Len(data)
            /\ \A j \in DOMAIN data :
                 /\ data[j].inventory_item = i
                 /\ \E k \in RowsOf(history, i) : history[k] = data[j]
            /\ \A j, k \in DOMAIN data : j < k => data[j].created_at > data[k].created_at
            /\ \A k \in RowsOf(history, i) :
                 history[k] \notin returned
                   => \A j \in DOMAIN data : history[k].created_at < data[j].created_at
    ]_vars

\* The query of item 1 has answered with 50 rows, the newest being the
\* deduction just made, while the item has more rows than that and a row
\* of item 2 is newer than the oldest row returned.
C22_Witness ==
  /\ Quiescent
  /\ response.status = 200
  /\ Len(response.data) = 50
  /\ Cardinality(RowsOf(history, 1)) > 50
  /\ response.data[1] = Last(history)
  /\ response.data[1].reason = "ORDER_USAGE"
  /\ \E k \in RowsOf(history, 2) : history[k].created_at > response.data[50].created_at

\* C30: category names are unique per shop among the categories that are
\* not deleted, after any sequence of create, rename and soft delete; a
\* create or a rename is refused, with the validation error 'A category
\* with this name already exists.', exactly when another category of the
\* shop that is not deleted has the name, and otherwise it is carried out:
\* a name freed by a soft delete can be given to a new category.
C30_UniqueNames ==
  [][\A p \in Procs :
       /\ \A c, d \in DOMAIN categories' :
            (/\ c # d
             /\ categories'[c].user = categories'[d].user
             /\ ~categories'[c].is_deleted /\ ~categories'[d].is_deleted)
            => categories'[c].name # categories'[d].name
       /\ \A u \in Tenants, name \in CategoryNames :
            /\ CategoryCreate(p, u, name) =>
                 (Duplicate(u, name, NULL)
                    <=> pc'[p] = "idle" /\ response' = Response(400, 0, NameError))
            /\ \A c \in CategoryIds :
                 (CategoryUpdateLoad(p, u, c, name) /\ CategoryVisible(u, c)) =>
                   (Duplicate(u, name, c)
                      <=> pc'[p] = "idle" /\ response' = Response(400, 0, NameError))
       /\ Returns(p, "category_create") =>
            /\ response'.status = 201
            /\ \E c \in DOMAIN categories' \ DOMAIN categories :
                 categories'[c] = req[p].category
       /\ Returns(p, "category_update") =>
            /\ response'.status = 200
            /\ categories'[req[p].target] = req[p].category
    ]_vars

\* The items of tenant u that are not deleted, and those of them that are
\* low on stock.
Active(u) == {i \in DOMAIN items : items[i].user = u /\ ~items[i].is_deleted}
Low(u) == {i \in Active(u) : items[i].current_stock < items[i].minimum_stock}

\* The ids of the rows of a serialised listing.
Listed(rows) == {rows[k].id : k \in DOMAIN rows}

\* C23: the dashboard reports, for the tenant of the caller, total_items =
\* the number of items not deleted, total_categories = the number of
\* categories not deleted, low_stock_count = the number of items with
\* current_stock < minimum_stock, recently_updated = the 5 items updated
\* last, and low_stock_items = at most 10 low-stock items which are the ones
\* with the lowest stock; and it changes nothing of the store.
C23_Dashboard ==
  [][\A p \in Procs, u \in Tenants :
       InventoryDashboard(p, u) =>
         LET s == response'.summary
             recent == s.recently_updated
             low == s.low_stock_items
         IN /\ response'.status = 200
            /\ s.total_items = Cardinality(Active(u))
            /\ s.total_categories
                 = Cardinality({c \in DOMAIN categories :
                                  categories[c].user = u /\ ~categories[c].is_deleted})
            /\ s.low_stock_count = Cardinality(Low(u))
            /\ Len(recent) = Min(5, Cardinality(Active(u)))
            /\ Cardinality(Listed(recent)) = Len(recent)
            /\ Listed(recent) \subseteq Active(u)
            /\ \A j, k \in DOMAIN recent :
                 j < k => items[recent[j].id].updated_at >= items[recent[k].id].updated_at
            /\ \A i \in Active(u) \ Listed(recent), k \in DOMAIN recent :
                 items[i].updated_at <= items[recent[k].id].updated_at
            /\ Len(low) = Min(10, Cardinality(Low(u)))
            /\ Cardinality(Listed(low)) = Len(low)
            /\ Listed(low) \subseteq Low(u)
            /\ \A i \in Low(u) \ Listed(low), k \in DOMAIN low :
                 items[i].current_stock >= items[low[k].id].current_stock
            /\ \A k \in DOMAIN recent \cup DOMAIN low :
                 \A row \in {recent[j] : j \in {k} \cap DOMAIN recent}
                              \cup {low[j] : j \in {k} \cap DOMAIN low} :
                   /\ row.name = items[row.id].name
                   /\ row.current_stock = items[row.id].current_stock
            /\ UNCHANGED <<items, categories, orders, materials, history>>
    ]_vars

\* C24: the ledger agrees with the balance: in every reachable state, for
\* every item with at least one StockHistory row, the stock_after of its
\* latest row is the current_stock of the item, and the stock_before of
\* each of its rows is the stock_after of its row before -- after any
\* sequence of operations, plain item updates (PUT / PATCH) included.
C24_LedgerAgrees ==
  \A i \in DOMAIN items :
    LET rows == RowsOf(history, i)
    IN rows # {} =>
         /\ history[Max(rows)].stock_after = items[i].current_stock
         /\ \A k \in rows :
              {j \in rows : j < k} # {}
                => history[k].stock_before = history[Max({j \in rows : j < k})].stock_after

\* The IN / ORDER_CANCELLED rows of the log.
Cancelled(entries) == {k \in DOMAIN entries : entries[k].reason = "ORDER_CANCELLED"}

\* C25: a binding is restored at most once: when two RemoveMaterial
\* requests for one OrderMaterial overlap, its quantity is added to the
\* balance once and one IN / ORDER_CANCELLED row is written; the request
\* that comes second answers NotFound or changes nothing, so the log never
\* holds more ORDER_CANCELLED rows than bindings have been removed.
C25_RestoredOnce ==
  [][/\ \A p \in Procs :
          (Returns(p, "destroy") /\ req[p].target \notin DOMAIN materials)
            => \/ response'.status = 404
               \/ UNCHANGED <<items, history>>
     /\ Cardinality(Cancelled(history')) <= Cardinality(removed')
    ]_vars

\* The quantity the bindings `rows` hold of item i.
RECURSIVE Bound(_, _)
Bound(rows, i) ==
  IF DOMAIN rows = {} THEN 0
  ELSE LET m == CHOOSE k \in DOMAIN rows : TRUE
       IN Bound([k \in DOMAIN rows \ {m} |-> rows[k]], i)
            + (IF rows[m].inventory_item = i THEN rows[m].quantity ELSE 0)

\* C26: what RemoveMaterial restores is what was deducted when the binding
\* was made, from the same item, whatever was done to the binding in
\* between (updates of its quantity or inventory_item through the
\* order-materials endpoint included); so for items touched only by
\* AddMaterials and RemoveMaterial, current_stock plus the quantities of
\* the item's bindings never changes.
C26_RestoreEqualsDeduct ==
  [][/\ \A p \in Procs :
          Returns(p, "destroy") =>
            \A k \in DOMAIN history :
              (history[k].reason = "ORDER_USAGE" /\ history[k].order_material = req[p].target)
              => /\ Last(history').reason = "ORDER_CANCELLED"
                 /\ Last(history').quantity = history[k].quantity
                 /\ Last(history').inventory_item = history[k].inventory_item
                 /\ items'[history[k].inventory_item].current_stock
                      = items[history[k].inventory_item].current_stock + history[k].quantity
     /\ \A i \in DOMAIN items :
          items'[i].current_stock + Bound(materials', i)
            = items[i].current_stock + Bound(materials, i)
    ]_vars

\* The columns of an item row other than the balance and updated_at.
Frame(item) == [user |-> item.user, name |-> item.name,
                minimum_stock |-> item.minimum_stock, is_deleted |-> item.is_deleted]

\* C27: the ledger operations change only the balance: the step in which
\* stock_in, adjust_stock, an AddMaterials call or RemoveMaterial commits
\* leaves every other column of every item as last committed, also when an
\* item update or a soft delete has committed since the operation loaded
\* the item: a soft-deleted item is never written back as not deleted.
C27_OnlyBalance ==
  [][\A p \in Procs :
       (\/ Returns(p, "stock_in") \/ Returns(p, "adjust_stock")
        \/ Returns(p, "add_get") \/ Returns(p, "destroy"))
       => \A i \in DOMAIN items : Frame(items'[i]) = Frame(items[i])
    ]_vars

\* The rows for item i among `entries`, in their order.
RECURSIVE Of(_, _)
Of(entries, i) ==
  IF entries = <<>> THEN <<>>
  ELSE LET rest == Of(SubSeq(entries, 1, Len(entries) - 1), i)
       IN IF Last(entries).inventory_item = i THEN Append(rest, Last(entries)) ELSE rest

\* C28: when one AddMaterials call names an item on several lines, each line
\* is checked against what the earlier lines of the call have left of its
\* balance: the call deducts in total no more than the balance at its
\* start, a line asking for more than is left yields an "Insufficient
\* stock" error that reports what is left, and the OUT rows of the item
\* form a chain: the first starts at the balance before the call, each
\* next one at the stock_after of the one before, the last ends at the
\* balance after the call.
C28_LinesShareBalance ==
  [][\A p \in Procs :
       Returns(p, "add_get") =>
         LET r == req[p]
             data == r.materials_data
             short == {k \in DOMAIN data :
                         /\ Resolvable(items, r.user, data[k].inventory_item)
                         /\ ~LineValid(items, r.user, data, k)}
             invalid == {k \in DOMAIN data : ~LineValid(items, r.user, data, k)}
         IN /\ \A i \in DOMAIN items :
                 LET out == Of(SubSeq(history', Len(history) + 1, Len(history')), i)
                 IN /\ Deducted(out, i) <= items[i].current_stock
                    /\ items'[i].current_stock = items[i].current_stock - Deducted(out, i)
                    /\ \A k \in DOMAIN out :
                         /\ out[k].transaction_type = "OUT"
                         /\ out[k].stock_after = out[k].stock_before - out[k].quantity
                         /\ out[k].stock_before
                              = IF k = 1 THEN items[i].current_stock ELSE out[k - 1].stock_after
                    /\ out # <<>> => Last(out).stock_after = items'[i].current_stock
            /\ \A j \in 1..Cardinality(invalid) :
                 LET k == Nth(invalid, j)
                 IN k \in short =>
                      response'.errors[j]
                        = [item |-> data[k].inventory_item, error |-> "Insufficient stock",
                           available |-> Remaining(items, r.user, data, k - 1,
                                                   data[k].inventory_item)]
            /\ \A k \in DOMAIN data :
                 (/\ Resolvable(items, r.user, data[k].inventory_item)
                  /\ data[k].quantity
                       > Remaining(items, r.user, data, k - 1, data[k].inventory_item))
                 => k \in short
    ]_vars

\* The first call of a run named item 1, whose balance was 0.02, on three
\* lines: 0.01 was deducted, 0.02 was refused with 0.01 left, and the last
\* 0.01 was deducted.
C28_Witness ==
  /\ Quiescent /\ served = 1
  /\ response.status = 201 /\ response.created = 2
  /\ response.errors = <<[item |-> 1, error |-> "Insufficient stock", available |-> 1]>>
  /\ items[1].current_stock = 0
  /\ Len(history) >= 2
  /\ Last(history).inventory_item = 1
  /\ Last(history).stock_before = 1 /\ Last(history).stock_after = 0
  /\ history[Len(history) - 1].inventory_item = 1
  /\ history[Len(history) - 1].stock_before = 2
  /\ history[Len(history) - 1].stock_after = 1

\* C29: the status of an order only moves forward for users who are not
\* staff: along any sequence of their requests (update_status, order update
\* and partial update) the status never changes to one that comes earlier
\* in PENDING, IN_STITCHING, READY, DELIVERED than the current one; a
\* request to move it back is refused and leaves the status as it is.
C29_StatusForward ==
  [][\A o \in DOMAIN orders :
       ~is_staff(orders[o].user) =>
         /\ index(orders'[o].status) >= index(orders[o].status)
         /\ \A p \in Procs, s \in STATUS_CHOICES :
              (/\ index(s) < index(orders[o].status)
               /\ ~orders[o].is_deleted
               /\ \/ UpdateStatusLoad(p, orders[o].user, o, s)
                  \/ OrderUpdateLoad(p, orders[o].user, o, FALSE, s))
              => pc'[p] = "idle" /\ response'.status = 400
    ]_vars

====
